---- MODULE Spec2Model ----
(***************************************************************************)
(* A model of acousticbrainz/data/dataset.py: validation of a submitted    *)
(* dataset document against BASE_JSON_SCHEMA, and the create / update /    *)
(* get / get_by_user_id / delete operations on the three tables dataset,   *)
(* dataset_class and dataset_class_member.                                 *)
(*                                                                         *)
(* Every cursor.execute call of the source is one step of the caller that  *)
(* runs it, so the statements of concurrent callers interleave.  The       *)
(* cursor / transaction provider (acousticbrainz.data) and the table       *)
(* definitions are not part of dataset.py; they are modelled as the        *)
(* specification describes them: a unit of work whose writes become        *)
(* visible to other callers only at commit, rolled back when the scoped    *)
(* cursor is left by an exception, rows locked by the unit of work that    *)
(* writes them, and foreign keys with cascading deletes.                   *)
(***************************************************************************)
EXTENDS Integers, Sequences, FiniteSets

(***************************************************************************)
(* JSON values.  A value carries its JSON type, so that the schema's       *)
(* "type" keyword is a real check.  Strings are TLA+ strings.              *)
(***************************************************************************)
JStr(s) == [type |-> "string", val |-> s]

JBool(b) == [type |-> "boolean", val |-> b]

JInt(n) == [type |-> "integer", val |-> n]

JNull == [type |-> "null", val |-> "null"]

JArr(items) == [type |-> "array", val |-> items]

JObj(fields) == [type |-> "object", val |-> fields]

Has(obj, key) == key \in DOMAIN obj.val

(***************************************************************************)
(* BASE_JSON_SCHEMA, keyword by keyword.                                   *)
(***************************************************************************)
MinLength == 1

MaxLength == 100

HexChars ==
    {"0", "1", "2", "3", "4", "5", "6", "7", "8", "9",
     "a", "b", "c", "d", "e", "f", "A", "B", "C", "D", "E", "F"}

DashAt == {9, 14, 19, 24}

UuidLen == 36

\* The "pattern" keyword is applied with re.search.  The pattern is anchored
\* with ^ and $; Python's $ matches at the end of the string and also just
\* before a newline that ends the string.
MatchesUuidPattern(s) ==
    /\ \/ Len(s) = UuidLen
       \/ Len(s) = UuidLen + 1 /\ SubSeq(s, UuidLen + 1, UuidLen + 1) = "\n"
    /\ \A k \in 1..UuidLen :
          IF k \in DashAt THEN SubSeq(s, k, k) = "-"
                          ELSE SubSeq(s, k, k) \in HexChars

NameOk_unbounded(v) ==
    /\ v.type = "string"
    /\ Len(v.val) >= MinLength

\* {"type": "string", "minLength": 1, "maxLength": 100}
NameOk(v) ==
    /\ v.type = "string"
    /\ Len(v.val) >= MinLength
    /\ Len(v.val) <= MaxLength

\* {"type": ["string", "null"]}
DescriptionOk(v) == v.type \in {"string", "null"}

\* {"type": "boolean"}
PublicOk(v) == v.type = "boolean"

\* {"type": "string", "pattern": "^[a-fA-F0-9]{8}-...$"}
RecordingOk(v) ==
    /\ v.type = "string"
    /\ MatchesUuidPattern(v.val)

\* {"type": "array", "items": {...}} of recordings
RecordingsOk(v) ==
    /\ v.type = "array"
    /\ \A k \in 1..Len(v.val) : RecordingOk(v.val[k])

\* One item of "classes": an object with required name and recordings.
ClassOk(c) ==
    /\ c.type = "object"
    /\ Has(c, "name") => NameOk(c.val.name)
    /\ Has(c, "description") => DescriptionOk(c.val.description)
    /\ Has(c, "recordings") => RecordingsOk(c.val.recordings)
    /\ Has(c, "name")
    /\ Has(c, "recordings")

ClassesOk(v) ==
    /\ v.type = "array"
    /\ \A k \in 1..Len(v.val) : ClassOk(v.val[k])

\* Every keyword of BASE_JSON_SCHEMA holds of d.  JSON_SCHEMA_COMPLETE is a
\* copy of it, so these are the keywords the two schemas share.
KeywordsOk(d) ==
    /\ d.type = "object"
    /\ Has(d, "name") => NameOk(d.val.name)
    /\ Has(d, "description") => DescriptionOk(d.val.description)
    /\ Has(d, "public") => PublicOk(d.val.public)
    /\ Has(d, "classes") => ClassesOk(d.val.classes)
    /\ Has(d, "name")
    /\ Has(d, "classes")
    /\ Has(d, "public")

(***************************************************************************)
(* JSON_SCHEMA_COMPLETE.  The module builds it when it is loaded: a deep    *)
(* copy of BASE_JSON_SCHEMA, then two assignments of minItems into objects  *)
(* nested in the copy.  A schema is modelled by the references to the two   *)
(* nested objects the assignments reach, the "classes" property and the     *)
(* "recordings" property of its items; objects maps a reference to the      *)
(* object's minItems keyword.                                               *)
(***************************************************************************)
\* The keyword is absent: no minimum.
NoMinItems == 0

ClassesMinItems == 2

RecordingsMinItems == 2

BASE_JSON_SCHEMA ==
    [classes |-> "BASE_JSON_SCHEMA.properties.classes",
     recordings |-> "BASE_JSON_SCHEMA.properties.classes.items.properties.recordings"]

\* The nested objects as the literal of BASE_JSON_SCHEMA creates them.
BaseObjects ==
    [r \in {BASE_JSON_SCHEMA.classes, BASE_JSON_SCHEMA.recordings} |-> [minItems |-> NoMinItems]]

deepcopy_shallow(objects, schema) == [objects |-> objects, schema |-> schema]

\* copy.deepcopy(schema): new objects, equal to those of schema.
deepcopy(objects, schema) ==
    LET copy == [classes |-> "copy of " \o schema.classes,
                 recordings |-> "copy of " \o schema.recordings]
    IN  [objects |->
            [r \in DOMAIN objects \cup {copy.classes, copy.recordings} |->
                IF r = copy.classes THEN objects[schema.classes]
                ELSE IF r = copy.recordings THEN objects[schema.recordings]
                ELSE objects[r]],
         schema |-> copy]

\* schema...["minItems"] = n
SetMinItems(objects, ref, n) == [objects EXCEPT ![ref].minItems = n]

Copied == deepcopy(BaseObjects, BASE_JSON_SCHEMA)

JSON_SCHEMA_COMPLETE == Copied.schema

\* The objects once the module is loaded.
SchemaObjects ==
    SetMinItems(SetMinItems(Copied.objects, JSON_SCHEMA_COMPLETE.classes, ClassesMinItems),
                JSON_SCHEMA_COMPLETE.recordings, RecordingsMinItems)

\* The "minItems" keyword of the object ref on the array v.
MinItemsOk(v, ref) == Len(v.val) >= SchemaObjects[ref].minItems

\* jsonschema.validate(d, schema) does not raise.
Validate(d, schema) ==
    /\ KeywordsOk(d)
    /\ MinItemsOk(d.val.classes, schema.classes)
    /\ \A k \in 1..Len(d.val.classes.val) :
          MinItemsOk(d.val.classes.val[k].val.recordings, schema.recordings)

\* jsonschema.validate(dictionary, BASE_JSON_SCHEMA) does not raise.
ValidBase(d) == Validate(d, BASE_JSON_SCHEMA)

ValidComplete(d) == Validate(d, JSON_SCHEMA_COMPLETE)

(***************************************************************************)
(* The documents and callers the operations are called with.               *)
(***************************************************************************)
Mbid1 == "770cc467-8dde-4d22-bc4c-a42f91e7515e"

Mbid2 == "E7A2F5B0-16CC-4BF0-8961-FD31D124B01B"

MbidShort == "770cc467-8dde-4d22-bc4c-a42f91e7515"

MbidNotHex == "g70cc467-8dde-4d22-bc4c-a42f91e7515e"

HappyClass == JObj([name |-> JStr("happy"), recordings |-> JArr(<<JStr(Mbid1), JStr(Mbid2)>>)])

HappyClass2 ==
    JObj([name |-> JStr("happy"), description |-> JNull, recordings |-> JArr(<<JStr(Mbid2)>>)])

SadClass ==
    JObj([name |-> JStr("sad"), description |-> JStr("minor keys"),
          recordings |-> JArr(<<JStr(Mbid1), JStr(Mbid1)>>)])

\* One class, no description key.
DocA == JObj([name |-> JStr("moods"), public |-> JBool(TRUE), classes |-> JArr(<<HappyClass>>)])

\* Two classes, one of them named like DocA's with other recordings, the
\* other listing the same recording twice.
DocB ==
    JObj([name |-> JStr("moods v2"), description |-> JStr("second take"),
          public |-> JBool(FALSE), classes |-> JArr(<<HappyClass2, SadClass>>)])

\* No classes at all; Base sets no minimum.
DocE ==
    JObj([name |-> JStr("empty"), description |-> JNull, public |-> JBool(TRUE),
          classes |-> JArr(<<>>)])

ValidDocs == {DocA, DocB, DocE}

\* A name of exactly 100 characters and a class without recordings.
DocEdge ==
    JObj([name |-> JStr("nnnnnnnnnnnnnnnnnnnnnnnnnnnnnnnnnnnnnnnnnnnnnnnnnnnnnnnnnnnnnnnnnnnnnnnnnnnnnnnnnnnnnnnnnnnnnnnnnnnn"),
          description |-> JStr(""), public |-> JBool(FALSE),
          classes |-> JArr(<<JObj([name |-> JStr("none"), recordings |-> JArr(<<>>)])>>)])

DocNoName == JObj([public |-> JBool(TRUE), classes |-> JArr(<<HappyClass>>)])

DocNoClasses == JObj([name |-> JStr("moods"), public |-> JBool(TRUE)])

DocNoPublic == JObj([name |-> JStr("moods"), classes |-> JArr(<<HappyClass>>)])

DocPublicNotBool ==
    JObj([name |-> JStr("moods"), public |-> JInt(1), classes |-> JArr(<<HappyClass>>)])

DocEmptyName == JObj([name |-> JStr(""), public |-> JBool(TRUE), classes |-> JArr(<<HappyClass>>)])

DocLongName ==
    JObj([name |-> JStr("xxxxxxxxxxxxxxxxxxxxxxxxxxxxxxxxxxxxxxxxxxxxxxxxxxxxxxxxxxxxxxxxxxxxxxxxxxxxxxxxxxxxxxxxxxxxxxxxxxxxx"),
          public |-> JBool(TRUE), classes |-> JArr(<<HappyClass>>)])

DocClassNoName ==
    JObj([name |-> JStr("moods"), public |-> JBool(TRUE),
          classes |-> JArr(<<HappyClass, JObj([recordings |-> JArr(<<JStr(Mbid1)>>)])>>)])

DocClassNoRecordings ==
    JObj([name |-> JStr("moods"), public |-> JBool(TRUE),
          classes |-> JArr(<<JObj([name |-> JStr("happy")])>>)])

DocBadMbid ==
    JObj([name |-> JStr("moods"), public |-> JBool(TRUE),
          classes |-> JArr(<<JObj([name |-> JStr("happy"),
                                   recordings |-> JArr(<<JStr(Mbid1), JStr(MbidNotHex)>>)])>>)])

DocShortMbid ==
    JObj([name |-> JStr("moods"), public |-> JBool(TRUE),
          classes |-> JArr(<<JObj([name |-> JStr("happy"),
                                   recordings |-> JArr(<<JStr(MbidShort)>>)])>>)])

InvalidDocs ==
    {DocNoName, DocNoClasses, DocNoPublic, DocPublicNotBool, DocEmptyName, DocLongName,
     DocClassNoName, DocClassNoRecordings, DocBadMbid, DocShortMbid}

Users == {1, 2}

Procs == {"p1", "p2"}

(***************************************************************************)
(* Bounds of the model.                                                    *)
(***************************************************************************)
\* Dataset ids the id generator hands out.
MaxDatasets == 2

\* Class ids the dataset_class id sequence hands out.
MaxClassId == 3

\* An id that never denotes a dataset.
NoSuchId == 0

DatasetIds == 1..MaxDatasets

(***************************************************************************)
(* State.                                                                  *)
(*   dataset, dataset_class, dataset_class_member: the committed rows of   *)
(*     the three tables.  A member row carries the position at which it    *)
(*     was inserted into its class (the table has no key of its own, and   *)
(*     the same mbid may be listed twice).                                 *)
(*   next_dataset_id, next_class_id: the id generators.                    *)
(*   pc, args, local, ret: each caller's position in the operation it      *)
(*     runs, the arguments it was called with, its local variables and     *)
(*     what the call returned or raised.                                   *)
(*   tx: each caller's open unit of work, the writes not yet committed.    *)
(***************************************************************************)
VARIABLES dataset, dataset_class, dataset_class_member,
          next_dataset_id, next_class_id, pc, args, local, ret, tx

vars ==
    <<dataset, dataset_class, dataset_class_member,
      next_dataset_id, next_class_id, pc, args, local, ret, tx>>

tables == <<dataset, dataset_class, dataset_class_member>>

EmptyTx == [ds_put |-> {}, ds_del |-> {}, cls_ins |-> {}, cls_del |-> {}, mem_ins |-> {}, locks |-> {}]

NoArgs == [op |-> "none", id |-> NoSuchId, dictionary |-> JNull, author_id |-> 0, public_only |-> FALSE]

NoLocal ==
    [dictionary |-> JNull, dataset_id |-> NoSuchId, i |-> 0, j |-> 0, cls_id |-> 0,
     row |-> JNull, rows |-> {}, classes |-> <<>>]

NoRet == [status |-> "none", value |-> JNull]

Raised(error) == [status |-> "raised", value |-> error]

Returned(value) == [status |-> "returned", value |-> value]

\* None, as a returned value.
None == JNull

Init ==
    /\ dataset = {}
    /\ dataset_class = {}
    /\ dataset_class_member = {}
    /\ next_dataset_id = 1
    /\ next_class_id = 1
    /\ pc = [p \in Procs |-> "idle"]
    /\ args = [p \in Procs |-> NoArgs]
    /\ local = [p \in Procs |-> NoLocal]
    /\ ret = [p \in Procs |-> NoRet]
    /\ tx = [p \in Procs |-> EmptyTx]

(***************************************************************************)
(* The storage backend: what a unit of work sees, commit, rollback, locks. *)
(***************************************************************************)
Committed ==
    [dataset |-> dataset, dataset_class |-> dataset_class,
     dataset_class_member |-> dataset_class_member]

Ids(rows) == {r.id : r \in rows}

\* The tables with the writes of unit of work t applied.  Deleting a class
\* deletes its members (ON DELETE CASCADE).
ApplyTx(db, t) ==
    [dataset |->
        {r \in db.dataset : r.id \notin t.ds_del /\ r.id \notin Ids(t.ds_put)} \cup t.ds_put,
     dataset_class |-> {c \in db.dataset_class : c.id \notin t.cls_del} \cup t.cls_ins,
     dataset_class_member |->
        {m \in db.dataset_class_member : m.class \notin t.cls_del} \cup t.mem_ins]

\* What a statement of caller p reads: the committed rows as they are when
\* the statement runs, and the writes of p's own open unit of work.
View(p) == ApplyTx(Committed, tx[p])

\* A row written by an open unit of work is locked until that unit of work
\* commits or rolls back; a statement of another caller that would write the
\* row waits.
LockedByOther(p, id) == \E q \in Procs \ {p} : id \in tx[q].locks

\* data.commit(): the writes of p's unit of work become the committed rows
\* and its locks are released.
CommitTx(p) ==
    /\ dataset' = View(p).dataset
    /\ dataset_class' = View(p).dataset_class
    /\ dataset_class_member' = View(p).dataset_class_member
    /\ tx' = [tx EXCEPT ![p] = EmptyTx]

\* Leaving "with data.create_cursor()" by an exception: the unit of work is
\* rolled back, its writes are dropped and its locks released.
RollbackTx(p) ==
    /\ tx' = [tx EXCEPT ![p] = EmptyTx]
    /\ UNCHANGED tables

(***************************************************************************)
(* The statements the operations execute, as changes of a unit of work t   *)
(* that sees the rows db.                                                  *)
(***************************************************************************)
\* INSERT INTO dataset (id, name, description, public, author) VALUES (...)
InsertDataset(t, row) == [t EXCEPT !.ds_put = @ \cup {row}]

\* The rows a DELETE of the classes cls removes with them (ON DELETE CASCADE
\* from dataset_class to dataset_class_member).
CascadeClasses(t, cls) ==
    [t EXCEPT !.cls_del = @ \cup cls,
              !.cls_ins = {c \in @ : c.id \notin cls},
              !.mem_ins = {m \in @ : m.class \notin cls}]

UpdateDatasetRow_reinserted(db, t, id, name, description, public, author) ==
    LET hit == {r \in db.dataset : r.id = id}
        new == {[id |-> r.id, name |-> name, description |-> description,
                 public |-> public, author |-> author,
                 created |-> next_dataset_id] : r \in hit}
    IN  [t EXCEPT !.ds_put = {r \in @ : r.id # id} \cup new,
                  !.locks = @ \cup Ids(hit)]

\* UPDATE dataset SET (name, description, public, author) = (...) WHERE id = ...
\* The rows it changes stay locked by the unit of work.
UpdateDatasetRow(db, t, id, name, description, public, author) ==
    LET hit == {r \in db.dataset : r.id = id}
        new == {[r EXCEPT !.name = name, !.description = description,
                          !.public = public, !.author = author] : r \in hit}
    IN  [t EXCEPT !.ds_put = {r \in @ : r.id # id} \cup new,
                  !.locks = @ \cup Ids(hit)]

DeleteClassesOf_nothing(db, t, id) == t

DeleteClassesOf_all(db, t, id) == CascadeClasses(t, Ids(db.dataset_class))

\* DELETE FROM dataset_class WHERE dataset = ...
DeleteClassesOf(db, t, id) ==
    CascadeClasses(t, Ids({c \in db.dataset_class : c.dataset = id}))

\* INSERT INTO dataset_class (name, description, dataset) VALUES (...)
InsertClass(t, row) == [t EXCEPT !.cls_ins = @ \cup {row}]

\* INSERT INTO dataset_class_member (class, mbid) VALUES (...)
InsertMember(t, row) == [t EXCEPT !.mem_ins = @ \cup {row}]

DatasetExists_unchecked(db, id) == TRUE

\* The foreign key of dataset_class.dataset: the dataset row must exist.
DatasetExists(db, id) == id \in Ids(db.dataset)

DeleteDatasetRow_classes_only(db, t, id) == DeleteClassesOf(db, t, id)

\* DELETE FROM dataset WHERE id = ...   Its classes go with it (ON DELETE
\* CASCADE from dataset to dataset_class).
DeleteDatasetRow(db, t, id) ==
    LET hit == Ids({r \in db.dataset : r.id = id})
        gone == CascadeClasses(t, Ids({c \in db.dataset_class : c.dataset \in hit}))
    IN  [gone EXCEPT !.ds_del = @ \cup hit,
                     !.ds_put = {r \in @ : r.id \notin hit},
                     !.locks = @ \cup hit]

\* SELECT ... FROM dataset WHERE id = ...
SelectDataset(db, id) == {r \in db.dataset : r.id = id}

\* SELECT id, name, description FROM dataset_class WHERE dataset = ...
SelectClasses(db, dataset_id) ==
    {[id |-> c.id, name |-> c.name, description |-> c.description] :
        c \in {x \in db.dataset_class : x.dataset = dataset_id}}

\* SELECT mbid FROM dataset_class_member WHERE class = ... and the loop that
\* collects the mbids, in the order the rows were inserted.
SelectRecordings(db, class_id) ==
    LET rows == {m \in db.dataset_class_member : m.class = class_id}
    IN  [k \in 1..Cardinality(rows) |-> (CHOOSE m \in rows : m.slot = k).mbid]

(***************************************************************************)
(* Helpers of the operations.                                              *)
(***************************************************************************)
WithDescription_empty(obj) ==
    JObj([k \in DOMAIN obj.val \cup {"description"} |->
            IF k \in DOMAIN obj.val THEN obj.val[k] ELSE JStr("")])

\* if "description" not in obj: obj["description"] = None
WithDescription(obj) ==
    JObj([k \in DOMAIN obj.val \cup {"description"} |->
            IF k \in DOMAIN obj.val THEN obj.val[k] ELSE JNull])

\* dictionary["classes"] of the call p runs.
Classes(p) == local[p].dictionary.val.classes.val

\* The class the loop over dictionary["classes"] is at.
Cls(p) == WithDescription(Classes(p)[local[p].i])

\* DEFAULT now() of dataset.created: the time of the insert.
Now == next_dataset_id

InsertPcs == {"create_insert_dataset", "create_insert_class", "create_insert_member"}

UpdatePcs ==
    {"update_dataset", "update_delete_classes", "update_insert_class", "update_insert_member"}

\* The class ids the call that p runs will still draw.
ClassIdsNeeded(p) ==
    CASE pc[p] \in {"create_insert_dataset", "update_dataset", "update_delete_classes"} ->
            Len(Classes(p))
      [] pc[p] \in {"create_insert_class", "update_insert_class"} ->
            Len(Classes(p)) - local[p].i + 1
      [] pc[p] \in {"create_insert_member", "update_insert_member"} ->
            Len(Classes(p)) - local[p].i
      [] OTHER -> 0

RECURSIVE ClassIdsReserved(_)
\* The class ids the running calls of the callers S will still draw.
ClassIdsReserved(S) ==
    IF S = {} THEN 0
    ELSE LET p == CHOOSE q \in S : TRUE
         IN  ClassIdsNeeded(p) + ClassIdsReserved(S \ {p})

\* The generators can serve a call with document d (with new_datasets new
\* dataset rows) besides the calls that are running.
CanServe(d, new_datasets) ==
    /\ (next_dataset_id - 1) + Cardinality({q \in Procs : pc[q] = "create_insert_dataset"})
           + new_datasets <= MaxDatasets
    /\ (next_class_id - 1) + ClassIdsReserved(Procs) + Len(d.val.classes.val)
           <= MaxClassId

\* The ids a caller can name: an id of no dataset, and the ids create has
\* handed out or given up (an id is not known before create returns).
KnownIds ==
    {NoSuchId} \cup
    {id \in 1..(next_dataset_id - 1) :
        ~ \E q \in Procs : pc[q] \in InsertPcs \cup {"create_commit"} /\ local[q].dataset_id = id}

Call(p, op, id, dictionary, author_id, public_only) ==
    args' = [args EXCEPT ![p] =
                [op |-> op, id |-> id, dictionary |-> dictionary,
                 author_id |-> author_id, public_only |-> public_only]]

\* The call of p ends: it returns or raises r.
Finish(p, r) ==
    /\ pc' = [pc EXCEPT ![p] = "done"]
    /\ ret' = [ret EXCEPT ![p] = r]

\* Where the loop over the classes goes once class i, inserted under cls_id,
\* is done.
AfterClass(p, cls_id, insert_class, commit) ==
    IF local[p].i < Len(Classes(p))
    THEN /\ pc' = [pc EXCEPT ![p] = insert_class]
         /\ local' = [local EXCEPT ![p].i = @ + 1, ![p].j = 0, ![p].cls_id = cls_id]
    ELSE /\ pc' = [pc EXCEPT ![p] = commit]
         /\ local' = [local EXCEPT ![p].cls_id = cls_id]

\* The body of "for cls in dictionary['classes']" up to cursor.fetchone():
\* the class is inserted for dataset_id, cls_id is the id the insert returned,
\* and the loop over its recordings begins.  The insert violates the foreign
\* key when the dataset row does not exist; the id sequence has advanced all
\* the same.
InsertClassStep(p, dataset_id, insert_class, insert_member, commit) ==
    LET cls == Cls(p)
        row == [id |-> next_class_id, name |-> cls.val.name.val,
                description |-> cls.val.description, dataset |-> dataset_id]
    IN  /\ ~LockedByOther(p, dataset_id)
        /\ next_class_id' = next_class_id + 1
        /\ UNCHANGED <<next_dataset_id, args>>
        /\ IF DatasetExists(View(p), dataset_id)
           THEN /\ tx' = [tx EXCEPT ![p] = InsertClass(@, row)]
                /\ UNCHANGED <<tables, ret>>
                /\ IF Len(cls.val.recordings.val) >= 1
                   THEN /\ pc' = [pc EXCEPT ![p] = insert_member]
                        /\ local' = [local EXCEPT ![p].cls_id = next_class_id, ![p].j = 1]
                   ELSE AfterClass(p, next_class_id, insert_class, commit)
           ELSE /\ RollbackTx(p)
                /\ Finish(p, Raised("IntegrityError"))
                /\ UNCHANGED local

\* The body of "for recording_mbid in cls['recordings']".
InsertMemberStep(p, insert_class, commit) ==
    LET recordings == Cls(p).val.recordings.val
        row == [class |-> local[p].cls_id, mbid |-> recordings[local[p].j].val,
                slot |-> local[p].j]
    IN  /\ tx' = [tx EXCEPT ![p] = InsertMember(@, row)]
        /\ UNCHANGED <<tables, next_dataset_id, next_class_id, args, ret>>
        /\ IF local[p].j < Len(recordings)
           THEN /\ local' = [local EXCEPT ![p].j = @ + 1]
                /\ UNCHANGED pc
           ELSE AfterClass(p, local[p].cls_id, insert_class, commit)

StatementFails_leaks(p) ==
    /\ Finish(p, Raised("StorageError"))
    /\ UNCHANGED <<tables, tx, next_dataset_id, next_class_id, args, local>>

\* A statement fails (a constraint violation, a lost connection): the
\* exception leaves the with block, the unit of work is rolled back, and
\* data.commit() is not reached.
StatementFails(p) ==
    /\ RollbackTx(p)
    /\ Finish(p, Raised("StorageError"))
    /\ UNCHANGED <<next_dataset_id, next_class_id, args, local>>

(***************************************************************************)
(* create_from_dict(dictionary, author_id)                                 *)
(***************************************************************************)
CreateCall(p, dictionary, author_id) ==
    /\ pc[p] = "idle"
    /\ Call(p, "create_from_dict", NoSuchId, dictionary, author_id, FALSE)
    /\ IF ValidBase(dictionary)
       THEN /\ CanServe(dictionary, 1)
            /\ pc' = [pc EXCEPT ![p] = "create_insert_dataset"]
            /\ local' = [local EXCEPT ![p] =
                            [NoLocal EXCEPT !.dictionary = WithDescription(dictionary)]]
            /\ ret' = [ret EXCEPT ![p] = NoRet]
       ELSE /\ ret' = [ret EXCEPT ![p] = Raised("ValidationError")]
            /\ local' = [local EXCEPT ![p] = NoLocal]
            /\ pc' = [pc EXCEPT ![p] = "done"]
    /\ UNCHANGED <<tables, next_dataset_id, next_class_id, tx>>

CreateInsertDataset(p) ==
    /\ pc[p] = "create_insert_dataset"
    /\ LET d == local[p].dictionary.val
           row == [id |-> next_dataset_id, name |-> d.name.val, description |-> d.description,
                   public |-> d.public.val, author |-> args[p].author_id, created |-> Now]
       IN  /\ tx' = [tx EXCEPT ![p] = InsertDataset(@, row)]
           /\ local' = [local EXCEPT ![p].dataset_id = next_dataset_id, ![p].i = 1]
           /\ next_dataset_id' = next_dataset_id + 1
           /\ pc' = [pc EXCEPT ![p] =
                        IF Len(d.classes.val) >= 1 THEN "create_insert_class"
                                                   ELSE "create_commit"]
    /\ UNCHANGED <<tables, next_class_id, args, ret>>

CreateInsertClass(p) ==
    /\ pc[p] = "create_insert_class"
    /\ InsertClassStep(p, local[p].dataset_id,
                       "create_insert_class", "create_insert_member", "create_commit")

CreateInsertMember(p) ==
    /\ pc[p] = "create_insert_member"
    /\ InsertMemberStep(p, "create_insert_class", "create_commit")

CreateFails_commits(p) ==
    /\ pc[p] \in InsertPcs
    /\ CommitTx(p)
    /\ Finish(p, Raised("StorageError"))
    /\ UNCHANGED <<next_dataset_id, next_class_id, args, local>>

CreateFails(p) ==
    /\ pc[p] \in InsertPcs
    /\ StatementFails(p)

CreateCommit(p) ==
    /\ pc[p] = "create_commit"
    /\ CommitTx(p)
    /\ Finish(p, Returned(local[p].dataset_id))
    /\ UNCHANGED <<next_dataset_id, next_class_id, args, local>>

(***************************************************************************)
(* update(dataset_id, dictionary, author_id)                               *)
(***************************************************************************)
UpdateCall(p, dataset_id, dictionary, author_id) ==
    /\ pc[p] = "idle"
    /\ dataset_id \in KnownIds
    /\ Call(p, "update", dataset_id, dictionary, author_id, FALSE)
    /\ IF ValidBase(dictionary)
       THEN /\ CanServe(dictionary, 0)
            /\ pc' = [pc EXCEPT ![p] = "update_dataset"]
            /\ local' = [local EXCEPT ![p] =
                            [NoLocal EXCEPT !.dictionary = WithDescription(dictionary),
                                            !.dataset_id = dataset_id]]
            /\ ret' = [ret EXCEPT ![p] = NoRet]
       ELSE /\ ret' = [ret EXCEPT ![p] = Raised("ValidationError")]
            /\ local' = [local EXCEPT ![p] = NoLocal]
            /\ pc' = [pc EXCEPT ![p] = "done"]
    /\ UNCHANGED <<tables, next_dataset_id, next_class_id, tx>>

UpdateDataset_skipped(p) ==
    /\ pc[p] = "update_dataset"
    /\ pc' = [pc EXCEPT ![p] = "update_delete_classes"]
    /\ UNCHANGED <<tables, next_dataset_id, next_class_id, args, local, ret, tx>>

UpdateDataset(p) ==
    /\ pc[p] = "update_dataset"
    /\ ~LockedByOther(p, args[p].id)
    /\ LET d == local[p].dictionary.val
       IN  tx' = [tx EXCEPT ![p] =
                     UpdateDatasetRow(View(p), @, args[p].id, d.name.val, d.description,
                                      d.public.val, args[p].author_id)]
    /\ pc' = [pc EXCEPT ![p] = "update_delete_classes"]
    /\ UNCHANGED <<tables, next_dataset_id, next_class_id, args, local, ret>>

UpdateDeleteClasses(p) ==
    /\ pc[p] = "update_delete_classes"
    /\ tx' = [tx EXCEPT ![p] = DeleteClassesOf(View(p), @, args[p].id)]
    /\ pc' = [pc EXCEPT ![p] =
                 IF Len(Classes(p)) >= 1 THEN "update_insert_class" ELSE "update_commit"]
    /\ local' = [local EXCEPT ![p].i = 1]
    /\ UNCHANGED <<tables, next_dataset_id, next_class_id, args, ret>>

UpdateInsertClass(p) ==
    /\ pc[p] = "update_insert_class"
    /\ InsertClassStep(p, args[p].id,
                       "update_insert_class", "update_insert_member", "update_commit")

UpdateInsertMember(p) ==
    /\ pc[p] = "update_insert_member"
    /\ InsertMemberStep(p, "update_insert_class", "update_commit")

UpdateFails_commits(p) ==
    /\ pc[p] \in UpdatePcs
    /\ CommitTx(p)
    /\ Finish(p, Raised("StorageError"))
    /\ UNCHANGED <<next_dataset_id, next_class_id, args, local>>

UpdateFails(p) ==
    /\ pc[p] \in UpdatePcs
    /\ StatementFails(p)

UpdateCommit(p) ==
    /\ pc[p] = "update_commit"
    /\ CommitTx(p)
    /\ Finish(p, Returned(None))
    /\ UNCHANGED <<next_dataset_id, next_class_id, args, local>>

(***************************************************************************)
(* get(id), with _get_classes and _get_recordings_in_class                 *)
(***************************************************************************)
GetCall(p, id) ==
    /\ pc[p] = "idle"
    /\ id \in KnownIds
    /\ Call(p, "get", id, JNull, 0, FALSE)
    /\ pc' = [pc EXCEPT ![p] = "get_dataset"]
    /\ local' = [local EXCEPT ![p] = [NoLocal EXCEPT !.dataset_id = id]]
    /\ ret' = [ret EXCEPT ![p] = NoRet]
    /\ UNCHANGED <<tables, next_dataset_id, next_class_id, tx>>

\* row["classes"] = classes; return row
GetResult(row, classes) ==
    [id |-> row.id, name |-> row.name, description |-> row.description,
     author |-> row.author, created |-> row.created, public |-> row.public,
     classes |-> classes]

\* The SELECT of the dataset row; None when cursor.rowcount is 0.
GetSelectDataset(p) ==
    /\ pc[p] = "get_dataset"
    /\ LET found == SelectDataset(View(p), args[p].id)
       IN  IF Cardinality(found) > 0
           THEN /\ local' = [local EXCEPT ![p].row = CHOOSE r \in found : TRUE]
                /\ pc' = [pc EXCEPT ![p] = "get_classes"]
                /\ UNCHANGED ret
           ELSE Finish(p, Returned(None)) /\ UNCHANGED local
    /\ UNCHANGED <<tables, next_dataset_id, next_class_id, args, tx>>

\* _get_classes: the SELECT of the class rows, cursor.fetchall().
GetSelectClasses(p) ==
    /\ pc[p] = "get_classes"
    /\ LET rows == SelectClasses(View(p), local[p].row.id)
       IN  IF rows = {}
           THEN Finish(p, Returned(GetResult(local[p].row, <<>>))) /\ UNCHANGED local
           ELSE /\ local' = [local EXCEPT ![p].rows = rows, ![p].classes = <<>>]
                /\ pc' = [pc EXCEPT ![p] = "get_recordings"]
                /\ UNCHANGED ret
    /\ UNCHANGED <<tables, next_dataset_id, next_class_id, args, tx>>

\* One round of "for row in rows" of _get_classes: the SELECT of the members
\* of the next class (_get_recordings_in_class), in the order of the ids.
GetSelectRecordings(p) ==
    /\ pc[p] = "get_recordings"
    /\ LET row == CHOOSE r \in local[p].rows : \A o \in local[p].rows : r.id <= o.id
           cls == [id |-> row.id, name |-> row.name, description |-> row.description,
                   recordings |-> SelectRecordings(View(p), row.id)]
           classes == Append(local[p].classes, cls)
       IN  IF local[p].rows = {row}
           THEN Finish(p, Returned(GetResult(local[p].row, classes))) /\ UNCHANGED local
           ELSE /\ local' = [local EXCEPT ![p].rows = @ \ {row}, ![p].classes = classes]
                /\ UNCHANGED <<pc, ret>>
    /\ UNCHANGED <<tables, next_dataset_id, next_class_id, args, tx>>

(***************************************************************************)
(* get_by_user_id(user_id, public_only=True)                               *)
(***************************************************************************)
WhereOwner_ignore_flag(r, user_id, public_only) == r.author = user_id

\* where = "WHERE author = %s"; if public_only: where += " AND public = TRUE"
WhereOwner(r, user_id, public_only) ==
    IF public_only THEN r.author = user_id /\ r.public = TRUE
                   ELSE r.author = user_id

\* The rows the SELECT id, name, description, author, created returns.
SelectByUser(db, user_id, public_only) ==
    {[id |-> r.id, name |-> r.name, description |-> r.description,
      author |-> r.author, created |-> r.created] :
        r \in {x \in db.dataset : WhereOwner(x, user_id, public_only)}}

GetByUserId(p, user_id, public_only) ==
    /\ pc[p] = "idle"
    /\ Call(p, "get_by_user_id", NoSuchId, JNull, user_id, public_only)
    /\ ret' = [ret EXCEPT ![p] = Returned(SelectByUser(View(p), user_id, public_only))]
    /\ local' = [local EXCEPT ![p] = NoLocal]
    /\ pc' = [pc EXCEPT ![p] = "done"]
    /\ UNCHANGED <<tables, next_dataset_id, next_class_id, tx>>

(***************************************************************************)
(* delete(id)                                                              *)
(***************************************************************************)
DeleteCall(p, id) ==
    /\ pc[p] = "idle"
    /\ id \in KnownIds
    /\ Call(p, "delete", id, JNull, 0, FALSE)
    /\ pc' = [pc EXCEPT ![p] = "delete_dataset"]
    /\ local' = [local EXCEPT ![p] = [NoLocal EXCEPT !.dataset_id = id]]
    /\ ret' = [ret EXCEPT ![p] = NoRet]
    /\ UNCHANGED <<tables, next_dataset_id, next_class_id, tx>>

DeleteDataset_not_found(p) ==
    /\ pc[p] = "delete_dataset"
    /\ ~LockedByOther(p, args[p].id)
    /\ IF SelectDataset(View(p), args[p].id) = {}
       THEN /\ Finish(p, Raised("NotFoundError"))
            /\ UNCHANGED tx
       ELSE /\ tx' = [tx EXCEPT ![p] = DeleteDatasetRow(View(p), @, args[p].id)]
            /\ pc' = [pc EXCEPT ![p] = "delete_commit"]
            /\ UNCHANGED ret
    /\ UNCHANGED <<tables, next_dataset_id, next_class_id, args, local>>

DeleteDataset(p) ==
    /\ pc[p] = "delete_dataset"
    /\ ~LockedByOther(p, args[p].id)
    /\ tx' = [tx EXCEPT ![p] = DeleteDatasetRow(View(p), @, args[p].id)]
    /\ pc' = [pc EXCEPT ![p] = "delete_commit"]
    /\ UNCHANGED <<tables, next_dataset_id, next_class_id, args, local, ret>>

DeleteCommit(p) ==
    /\ pc[p] = "delete_commit"
    /\ CommitTx(p)
    /\ Finish(p, Returned(None))
    /\ UNCHANGED <<next_dataset_id, next_class_id, args, local>>

(***************************************************************************)
(* The system: callers run their operations one statement at a time.       *)
(***************************************************************************)
\* The caller takes what the call returned or raised and is free to call
\* again.
Return(p) ==
    /\ pc[p] = "done"
    /\ pc' = [pc EXCEPT ![p] = "idle"]
    /\ args' = [args EXCEPT ![p] = NoArgs]
    /\ local' = [local EXCEPT ![p] = NoLocal]
    /\ ret' = [ret EXCEPT ![p] = NoRet]
    /\ UNCHANGED <<tables, next_dataset_id, next_class_id, tx>>

CreateStep(p) ==
    \/ CreateInsertDataset(p)
    \/ CreateInsertClass(p)
    \/ CreateInsertMember(p)
    \/ CreateFails(p)
    \/ CreateCommit(p)

UpdateStep(p) ==
    \/ UpdateDataset(p)
    \/ UpdateDeleteClasses(p)
    \/ UpdateInsertClass(p)
    \/ UpdateInsertMember(p)
    \/ UpdateFails(p)
    \/ UpdateCommit(p)

GetStep(p) ==
    \/ GetSelectDataset(p)
    \/ GetSelectClasses(p)
    \/ GetSelectRecordings(p)

DeleteStep(p) ==
    \/ DeleteDataset(p)
    \/ DeleteCommit(p)

Step(p) ==
    \/ CreateStep(p)
    \/ UpdateStep(p)
    \/ GetStep(p)
    \/ DeleteStep(p)
    \/ Return(p)

AllIds == DatasetIds \cup {NoSuchId}

\* One caller at a time: any operation, with any document, valid or not, on
\* any id, for any user.
Caller == "p1"

AnyDocs == ValidDocs \cup {DocEdge} \cup InvalidDocs

AnyCall(p) ==
    \/ \E d \in AnyDocs, a \in Users : CreateCall(p, d, a)
    \/ \E id \in AllIds, d \in AnyDocs, a \in Users : UpdateCall(p, id, d, a)
    \/ \E id \in AllIds : GetCall(p, id)
    \/ \E u \in Users, po \in BOOLEAN : GetByUserId(p, u, po)
    \/ \E id \in AllIds : DeleteCall(p, id)

Next == AnyCall(Caller) \/ Step(Caller)

Spec == Init /\ [][Next]_vars

\* Two callers at once, each acting for its own user, on one dataset: a
\* dataset is created only while there is none, and the other operations are
\* called on the id handed out last.
UserOf(p) == IF p = "p1" THEN 1 ELSE 2

TheId == next_dataset_id - 1

NoDataset ==
    /\ dataset = {}
    /\ \A q \in Procs : pc[q] \notin InsertPcs \cup {"create_commit"}

SharedCall(p) ==
    \/ \E d \in ValidDocs : NoDataset /\ CreateCall(p, d, UserOf(p))
    \/ \E d \in ValidDocs : UpdateCall(p, TheId, d, UserOf(p))
    \/ GetCall(p, TheId)
    \/ DeleteCall(p, TheId)

NextConcurrent == \E p \in Procs : SharedCall(p) \/ Step(p)

SpecConcurrent == Init /\ [][NextConcurrent]_vars

\* Two callers at once on one dataset that is created, updated and read, and
\* never deleted.
UpdateOrGetCall(p) ==
    \/ \E d \in ValidDocs : NoDataset /\ CreateCall(p, d, UserOf(p))
    \/ \E d \in ValidDocs : UpdateCall(p, TheId, d, UserOf(p))
    \/ GetCall(p, TheId)

NextUpdateAndGet ==
    \E p \in Procs :
        UpdateOrGetCall(p) \/ CreateStep(p) \/ UpdateStep(p) \/ GetStep(p) \/ Return(p)

SpecUpdateAndGet == Init /\ [][NextUpdateAndGet]_vars

\* Two callers at once, each on a dataset of its own: a caller creates a
\* dataset for its user when the user has none, and updates, reads and
\* deletes the dataset of its user.
OwnIds(p) == Ids({r \in dataset : r.author = UserOf(p)})

OwnCall(p) ==
    \/ \E d \in ValidDocs : OwnIds(p) = {} /\ CreateCall(p, d, UserOf(p))
    \/ \E id \in OwnIds(p), d \in ValidDocs : UpdateCall(p, id, d, UserOf(p))
    \/ \E id \in OwnIds(p) : GetCall(p, id)
    \/ \E id \in OwnIds(p) : DeleteCall(p, id)

NextOwnDatasets == \E p \in Procs : OwnCall(p) \/ Step(p)

SpecOwnDatasets == Init /\ [][NextOwnDatasets]_vars

\* The dataset the call of p is about: the id it was called with, or the id
\* create has drawn.
Target(p) == IF args[p].op = "create_from_dict" THEN local[p].dataset_id ELSE args[p].id

\* The rows of dataset id in the rows db: its row, its classes, their members.
RowsOf(db, id) ==
    [dataset |-> {r \in db.dataset : r.id = id},
     dataset_class |-> {c \in db.dataset_class : c.dataset = id},
     dataset_class_member |->
        {m \in db.dataset_class_member :
            m.class \in Ids({c \in db.dataset_class : c.dataset = id})}]

(***************************************************************************)
(* Validation alone: documents of every shape of class and recording       *)
(* counts, validated against either schema.                                *)
(***************************************************************************)
MaxClasses == 3

MaxRecordings == 3

\* A class with n recordings.
CountClass(n) == JObj([name |-> JStr("c"), recordings |-> JArr([k \in 1..n |-> JStr(Mbid1)])])

\* A document whose k-th class has sizes[k] recordings.
CountDoc(sizes) ==
    JObj([name |-> JStr("counts"), public |-> JBool(TRUE),
          classes |-> JArr([k \in 1..Len(sizes) |-> CountClass(sizes[k])])])

CountDocs == {CountDoc(sizes) : sizes \in UNION {[1..n -> 0..MaxRecordings] : n \in 0..MaxClasses}}

SchemaDocs == CountDocs \cup AnyDocs

SchemaNames == {"BASE_JSON_SCHEMA", "JSON_SCHEMA_COMPLETE"}

SchemaNamed(schema_name) ==
    IF schema_name = "BASE_JSON_SCHEMA" THEN BASE_JSON_SCHEMA ELSE JSON_SCHEMA_COMPLETE

\* jsonschema.validate(d, schema): returns None or raises ValidationError.
ValidateCall(p, d, schema_name) ==
    /\ pc[p] = "idle"
    /\ Call(p, schema_name, NoSuchId, d, 0, FALSE)
    /\ Finish(p, IF Validate(d, SchemaNamed(schema_name)) THEN Returned(None)
                                                          ELSE Raised("ValidationError"))
    /\ local' = [local EXCEPT ![p] = NoLocal]
    /\ UNCHANGED <<tables, next_dataset_id, next_class_id, tx>>

NextValidate ==
    \/ \E d \in SchemaDocs, n \in SchemaNames : ValidateCall(Caller, d, n)
    \/ Return(Caller)

SpecValidate == Init /\ [][NextValidate]_vars

\* The numbers of recordings of the classes of a document.
RecordingCounts(d) ==
    [k \in 1..Len(d.val.classes.val) |-> Len(d.val.classes.val[k].val.recordings.val)]

(***************************************************************************)
(* get(id) run against rows that do not change while it runs: the three    *)
(* kinds of SELECT of get, _get_classes and _get_recordings_in_class, one   *)
(* after the other on the same rows db.                                    *)
(***************************************************************************)
RECURSIVE ClassList(_, _)
ClassList(db, rows) ==
    IF rows = {} THEN <<>>
    ELSE LET row == CHOOSE r \in rows : \A o \in rows : r.id <= o.id
         IN  <<[id |-> row.id, name |-> row.name, description |-> row.description,
                recordings |-> SelectRecordings(db, row.id)]>>
             \o ClassList(db, rows \ {row})

get(db, id) ==
    LET found == SelectDataset(db, id)
    IN  IF Cardinality(found) > 0
        THEN LET row == CHOOSE r \in found : TRUE
             IN  GetResult(row, ClassList(db, SelectClasses(db, row.id)))
        ELSE None

(***************************************************************************)
(* What the claims compare: classes as a collection of name + recordings,  *)
(* whatever the order and the generated ids.                               *)
(***************************************************************************)
\* The bag of the elements of a sequence: element -> number of occurrences.
BagOf(seq) ==
    [x \in {seq[k] : k \in 1..Len(seq)} |-> Cardinality({k \in 1..Len(seq) : seq[k] = x})]

\* The classes of a submitted document.
DocClasses(d) ==
    LET cs == d.val.classes.val
    IN  BagOf([k \in 1..Len(cs) |->
                 [name |-> cs[k].val.name.val,
                  recordings |-> BagOf([n \in 1..Len(cs[k].val.recordings.val) |->
                                           cs[k].val.recordings.val[n].val])]])

\* The classes of a dataset that get returned.
GotClasses(r) ==
    BagOf([k \in 1..Len(r.classes) |->
             [name |-> r.classes[k].name, recordings |-> BagOf(r.classes[k].recordings)]])

\* The description a document asks for: null when it has none.
DocDescription(d) == IF Has(d, "description") THEN d.val.description ELSE JNull

\* What get returns for a dataset written from document d for author.
MatchesDoc(r, d, author) ==
    /\ r # None
    /\ r.name = d.val.name.val
    /\ r.description = DocDescription(d)
    /\ r.public = d.val.public.val
    /\ r.author = author
    /\ GotClasses(r) = DocClasses(d)

\* The class rows of a dataset, and the member rows of classes, in rows db.
ClassRowsOf(db, id) == {c \in db.dataset_class : c.dataset = id}

MemberRowsOf(db, class_ids) == {m \in db.dataset_class_member : m.class \in class_ids}

(***************************************************************************)
(* The claims.                                                             *)
(***************************************************************************)
\* C1: a get that runs while the dataset is updated returns either the
\* dataset's full class set from before the update or the full class set of
\* the updating document, compared by name + recordings: never a mix, never
\* a class whose recordings are missing.  Every class set ever committed is
\* that of a submitted document, so what get returns must be the class set
\* of one of them.
C1_GetSeesOldOrNewClasses ==
    \A p \in Procs :
        (pc[p] = "done" /\ args[p].op = "get" /\ ret[p].value # None)
            => \E d \in ValidDocs : GotClasses(ret[p].value) = DocClasses(d)

\* C2: when create fails after the dataset row and some class or member rows
\* were inserted, it raises, and nothing of it is persisted: a get of the
\* attempted id returns None, no class row names the id, no member row is
\* left without its class.
C2_FailedCreatePersistsNothing ==
    \A p \in Procs :
        (/\ pc[p] = "done"
         /\ args[p].op = "create_from_dict"
         /\ ret[p].status = "raised"
         /\ local[p].dataset_id # NoSuchId)
            => LET id == local[p].dataset_id
               IN  /\ ret[p] = Raised("StorageError")
                   /\ get(Committed, id) = None
                   /\ ClassRowsOf(Committed, id) = {}
                   /\ \A m \in dataset_class_member : m.class \in Ids(dataset_class)
                   /\ \A q \in Procs :
                         (pc[q] = "done" /\ args[q].op = "get" /\ args[q].id = id)
                             => ret[q].value = None

\* A create of DocB failed at the last member of its second class, and a get
\* of the id it had drawn has returned None.
C2_Witness ==
    \E p, q \in Procs :
        /\ pc[p] = "done" /\ args[p].op = "create_from_dict"
        /\ args[p].dictionary = DocB
        /\ ret[p] = Raised("StorageError")
        /\ local[p].i = 2 /\ local[p].j = 2
        /\ pc[q] = "done" /\ args[q].op = "get"
        /\ args[q].id = local[p].dataset_id
        /\ ret[q] = Returned(None)

\* C3: an update that fails after the dataset row was updated or the old
\* classes were deleted leaves the committed rows as they were: no step of an
\* update before its commit changes a committed row, and the failing step
\* raises and drops the unit of work.
C3_FailedUpdateChangesNothing ==
    [][\A p \in Procs :
          (/\ pc[p] \in UpdatePcs
           /\ (pc'[p] # pc[p] \/ local'[p] # local[p] \/ tx'[p] # tx[p]))
              => /\ tables' = tables
                 /\ pc'[p] = "done" => (ret'[p].status = "raised" /\ tx'[p] = EmptyTx)]_vars

\* An update of an existing dataset failed after it had deleted the classes
\* and inserted a new one, and the dataset is not what the update asked for.
C3_Witness ==
    \E p \in Procs :
        /\ pc[p] = "done" /\ args[p].op = "update"
        /\ ret[p] = Raised("StorageError")
        /\ local[p].cls_id # 0
        /\ args[p].id \in Ids(dataset)
        /\ ClassRowsOf(Committed, args[p].id) # {}
        /\ ~MatchesDoc(get(Committed, args[p].id), args[p].dictionary, args[p].author_id)

\* C4: when an update of an existing dataset commits, get returns exactly the
\* classes of the document (by name + recordings), and no class row and no
\* member row the dataset had before is left.
C4_UpdateReplacesClasses ==
    [][\A p \in Procs :
          (pc[p] = "update_commit" /\ pc'[p] = "done" /\ args[p].id \in Ids(dataset))
              => LET id == args[p].id
                     old == Ids(ClassRowsOf(Committed, id))
                 IN  /\ get(Committed', id) # None
                     /\ GotClasses(get(Committed', id)) = DocClasses(args[p].dictionary)
                     /\ Ids(dataset_class') \cap old = {}
                     /\ MemberRowsOf(Committed', old) = {}]_vars

\* An update to DocB has committed and the dataset is DocB's, while a get
\* that returned before it shows the dataset with the class of DocA.
C4_Witness ==
    \E p, q \in Procs :
        /\ pc[p] = "done" /\ args[p].op = "update" /\ ret[p] = Returned(None)
        /\ args[p].dictionary = DocB
        /\ MatchesDoc(get(Committed, args[p].id), DocB, args[p].author_id)
        /\ pc[q] = "done" /\ args[q].op = "get" /\ args[q].id = args[p].id
        /\ ret[q].value # None
        /\ GotClasses(ret[q].value) = DocClasses(DocA)

\* C5: when create commits a valid document, it returns the new id, and get
\* of that id returns the document's name, description (null when it has
\* none), public flag and classes (by name + recordings), and the author.
C5_CreateGetRoundTrip ==
    [][\A p \in Procs :
          (pc[p] = "create_commit" /\ pc'[p] = "done")
              => /\ ret'[p] = Returned(local[p].dataset_id)
                 /\ MatchesDoc(get(Committed', local[p].dataset_id),
                               args[p].dictionary, args[p].author_id)]_vars

\* A create of DocA, which has no description, has returned for user 2, and
\* the stored dataset has a null description and DocA's class.
C5_Witness ==
    \E p \in Procs :
        /\ pc[p] = "done" /\ args[p].op = "create_from_dict"
        /\ args[p].dictionary = DocA /\ args[p].author_id = 2
        /\ ret[p] = Returned(local[p].dataset_id)
        /\ MatchesDoc(get(Committed, local[p].dataset_id), DocA, 2)
        /\ get(Committed, local[p].dataset_id).description = JNull

\* C6: create and update of a document that fails the Base schema (no name,
\* no classes, no public, public not a boolean, name empty or longer than
\* 100, a class without name or recordings, a recording id that is no UUID)
\* raise ValidationError at once: no statement is executed, no row changes.
C6_InvalidDocumentRejectedFirst ==
    [][\A p \in Procs :
          (/\ pc[p] = "idle"
           /\ args'[p].op \in {"create_from_dict", "update"}
           /\ args'[p].dictionary \in InvalidDocs)
              => /\ pc'[p] = "done"
                 /\ ret'[p] = Raised("ValidationError")
                 /\ tx'[p] = EmptyTx
                 /\ tables' = tables
                 /\ next_dataset_id' = next_dataset_id
                 /\ next_class_id' = next_class_id]_vars

\* An update of an existing dataset with a malformed recording id has raised
\* ValidationError.
C6_Witness ==
    \E p \in Procs :
        /\ pc[p] = "done" /\ args[p].op = "update"
        /\ args[p].dictionary = DocBadMbid
        /\ args[p].id \in Ids(dataset)
        /\ ret[p] = Raised("ValidationError")

\* C7: when two callers have each committed an update of the same dataset,
\* the dataset is entirely the one or entirely the other: its row (name,
\* description, public, author) and its classes are those of one update.
C7_ConcurrentUpdatesSerialized ==
    \A p, q \in Procs :
        (/\ p # q
         /\ pc[p] = "done" /\ args[p].op = "update" /\ ret[p].status = "returned"
         /\ pc[q] = "done" /\ args[q].op = "update" /\ ret[q].status = "returned"
         /\ args[p].id = args[q].id
         /\ args[p].id \in Ids(dataset))
            => \/ MatchesDoc(get(Committed, args[p].id), args[p].dictionary, args[p].author_id)
               \/ MatchesDoc(get(Committed, args[p].id), args[q].dictionary, args[q].author_id)

\* Two updates of the same dataset with different documents at once: one has
\* executed all its statements and holds the row, the other waits at its
\* UPDATE.
C7_Witness ==
    \E p, q \in Procs :
        /\ pc[p] = "update_commit" /\ args[p].id \in tx[p].locks
        /\ pc[q] = "update_dataset" /\ args[q].id = args[p].id
        /\ args[p].dictionary = DocB /\ args[q].dictionary = DocA
        /\ args[p].id \in Ids(dataset)

\* C8: delete of an id that has no dataset row (never handed out, or deleted
\* before) raises nothing and leaves every dataset, class and member row as
\* it was.
C8_DeleteOfMissingIdIsNoOp ==
    [][\A p \in Procs :
          (/\ args[p].op = "delete"
           /\ pc[p] \in {"delete_dataset", "delete_commit"}
           /\ pc'[p] # pc[p]
           /\ args[p].id \notin Ids(dataset))
              => /\ tables' = tables
                 /\ pc'[p] \in {"delete_commit", "done"}
                 /\ pc'[p] = "done" => ret'[p] = Returned(None)]_vars

\* The DELETE of an id that was handed out and has no row any more was
\* executed, matched nothing, and another dataset is there.
C8_Witness ==
    \E p \in Procs :
        /\ pc[p] = "delete_commit" /\ args[p].op = "delete"
        /\ args[p].id = 1 /\ next_dataset_id > 1
        /\ args[p].id \notin Ids(dataset)
        /\ tx[p] = EmptyTx
        /\ dataset # {}

\* C9: when delete of an existing dataset commits, get of the id returns
\* None, no class row names the dataset and no member row of its former
\* classes is left.
C9_DeleteCascades ==
    [][\A p \in Procs :
          (pc[p] = "delete_commit" /\ pc'[p] = "done" /\ args[p].id \in Ids(dataset))
              => LET id == args[p].id
                     old == Ids(ClassRowsOf(Committed, id))
                 IN  /\ ret'[p] = Returned(None)
                     /\ get(Committed', id) = None
                     /\ ClassRowsOf(Committed', id) = {}
                     /\ MemberRowsOf(Committed', old) = {}]_vars

\* A delete has returned, the tables are empty, and a get of the same id that
\* returned before it shows the dataset with its classes.
C9_Witness ==
    \E p, q \in Procs :
        /\ pc[p] = "done" /\ args[p].op = "delete" /\ ret[p] = Returned(None)
        /\ pc[q] = "done" /\ args[q].op = "get" /\ args[q].id = args[p].id
        /\ ret[q].value # None
        /\ Len(ret[q].value.classes) = 2
        /\ dataset = {} /\ dataset_class = {} /\ dataset_class_member = {}

\* C10: get_by_user_id(u, public_only=True) returns exactly the datasets of
\* author u that are public, and get_by_user_id(u, public_only=False) exactly
\* the datasets of author u, public or not.
C10_ListingScope ==
    \A p \in Procs :
        (pc[p] = "done" /\ args[p].op = "get_by_user_id")
            => LET u == args[p].author_id
                   mine == {r \in dataset : r.author = u}
               IN  /\ args[p].public_only
                        => Ids(ret[p].value) = Ids({r \in mine : r.public})
                   /\ ~args[p].public_only => Ids(ret[p].value) = Ids(mine)
                   /\ \A g \in ret[p].value :
                         \E r \in mine :
                            /\ g.id = r.id /\ g.name = r.name
                            /\ g.description = r.description
                            /\ g.author = u /\ g.created = r.created

\* User 1 has a public and a private dataset, and the listing with
\* public_only has returned the public one alone.
C10_Witness ==
    \E p \in Procs :
        /\ pc[p] = "done" /\ args[p].op = "get_by_user_id"
        /\ args[p].author_id = 1 /\ args[p].public_only
        /\ \E r, o \in dataset : r.author = 1 /\ o.author = 1 /\ r.public /\ ~o.public
        /\ Cardinality(ret[p].value) = 1

\* C11: a document with exactly one class, or with a class of exactly one
\* recording, passes Base validation and fails Complete validation; a
\* document with two classes of two recordings each passes both; Base sets no
\* minimum on the number of classes or recordings, so every document of
\* CountDocs, which differ in these numbers alone, passes it.
C11_CompleteSchemaBoundary ==
    \A p \in Procs :
        (pc[p] = "done" /\ args[p].op \in SchemaNames /\ args[p].dictionary \in CountDocs)
            => LET counts == RecordingCounts(args[p].dictionary)
                   base == args[p].op = "BASE_JSON_SCHEMA"
               IN  /\ base => ret[p] = Returned(None)
                   /\ (~base /\ (Len(counts) = 1 \/ \E k \in 1..Len(counts) : counts[k] = 1))
                         => ret[p] = Raised("ValidationError")
                   /\ (~base /\ counts = <<2, 2>>) => ret[p] = Returned(None)

\* Complete validation of a document with two classes, of two recordings and
\* of one, has raised ValidationError.
C11_Witness ==
    \E p \in Procs :
        /\ pc[p] = "done" /\ args[p].op = "JSON_SCHEMA_COMPLETE"
        /\ args[p].dictionary = CountDoc(<<2, 1>>)
        /\ ret[p] = Raised("ValidationError")

\* C12: a document, valid otherwise, with two classes that hold exactly one
\* recording each passes Complete validation.
C12_CompleteAcceptsOneRecording ==
    \A p \in Procs :
        (/\ pc[p] = "done" /\ args[p].op = "JSON_SCHEMA_COMPLETE"
         /\ args[p].dictionary = CountDoc(<<1, 1>>))
            => ret[p] = Returned(None)

\* C13: when an update commits, the dataset rows keep their ids and their
\* created timestamps and there are as many as before; the row of the updated
\* id has the document's name, description and public flag and the given
\* author, and every other row is as it was.
C13_UpdatePreservesIdentity ==
    [][\A p \in Procs :
          (pc[p] = "update_commit" /\ pc'[p] = "done")
              => /\ ret'[p] = Returned(None)
                 /\ Cardinality(dataset') = Cardinality(dataset)
                 /\ \A r \in dataset :
                       \E n \in dataset' :
                          /\ n.id = r.id /\ n.created = r.created
                          /\ r.id # args[p].id => n = r
                          /\ r.id = args[p].id =>
                                LET d == args[p].dictionary
                                IN  /\ n.name = d.val.name.val
                                    /\ n.description = DocDescription(d)
                                    /\ n.public = d.val.public.val
                                    /\ n.author = args[p].author_id]_vars

\* An update of the first of two datasets to DocB by user 2 has returned: the
\* row has DocB's name and user 2 as its author, and is still the row
\* created first.
C13_Witness ==
    \E p \in Procs :
        /\ pc[p] = "done" /\ args[p].op = "update" /\ ret[p] = Returned(None)
        /\ args[p].id = 1 /\ args[p].dictionary = DocB /\ args[p].author_id = 2
        /\ Cardinality(dataset) = 2
        /\ \E r \in dataset :
              r.id = 1 /\ r.created = 1 /\ r.name = "moods v2" /\ r.author = 2

\* C14: the writes of a create or update that failed are never committed
\* later.  A call that ends, by a failure too, leaves no unit of work open
\* (its writes are dropped by the rollback and no later call of the caller
\* starts with them), a failing step changes no committed row, and the
\* committed rows change only when a call that returns normally commits, by
\* exactly the writes of that call's unit of work.
C14_FailedWorkNeverCommitted ==
    [][/\ \A p \in Procs :
             /\ pc'[p] \in {"idle", "done"} => tx'[p] = EmptyTx
             /\ (pc[p] # "done" /\ pc'[p] = "done" /\ ret'[p].status = "raised")
                   => tables' = tables
       /\ tables' # tables
             => \E p \in Procs :
                   /\ pc[p] \in {"create_commit", "update_commit", "delete_commit"}
                   /\ pc'[p] = "done" /\ ret'[p].status = "returned"
                   /\ Committed' = ApplyTx(Committed, tx[p])]_vars

\* A create failed after it had inserted its dataset row and a class; a
\* create called after it has committed and returned, and the committed rows
\* are those of the second create alone.
C14_Witness ==
    \E p, q \in Procs :
        /\ pc[p] = "done" /\ args[p].op = "create_from_dict"
        /\ ret[p] = Raised("StorageError") /\ local[p].cls_id # 0
        /\ pc[q] = "done" /\ args[q].op = "create_from_dict"
        /\ ret[q] = Returned(local[q].dataset_id)
        /\ local[q].dataset_id > local[p].dataset_id
        /\ Ids(dataset) = {local[q].dataset_id}
        /\ dataset_class # {}
        /\ \A c \in dataset_class : c.dataset = local[q].dataset_id /\ c.id > local[p].cls_id

\* C15: an update with a Base-valid document, with classes or without, of an
\* id that denotes no dataset completes without raising an error (a failure
\* of the storage itself apart).
C15_UpdateOfMissingIdIsSilent ==
    \A p \in Procs :
        (/\ pc[p] = "done" /\ args[p].op = "update"
         /\ ValidBase(args[p].dictionary)
         /\ args[p].id \notin Ids(dataset)
         /\ ret[p] # Raised("StorageError"))
            => ret[p] = Returned(None)

\* C16: in every committed state every class row references exactly one
\* dataset row and every member row exactly one class row.
C16_ReferentialIntegrity ==
    /\ \A c \in dataset_class : Cardinality({r \in dataset : r.id = c.dataset}) = 1
    /\ \A m \in dataset_class_member : Cardinality({c \in dataset_class : c.id = m.class}) = 1

\* An update races with a delete of the same dataset, which has committed
\* classes and members: the update has executed its UPDATE and DELETE and has
\* inserted a class, the delete waits at its DELETE for the row.
C16_Witness ==
    \E p, q \in Procs :
        /\ args[p].op = "update" /\ pc[p] \in {"update_insert_member", "update_commit"}
        /\ tx[p].cls_ins # {} /\ tx[p].cls_del # {}
        /\ args[q].op = "delete" /\ pc[q] = "delete_dataset"
        /\ args[q].id = args[p].id
        /\ dataset_class # {} /\ dataset_class_member # {}

\* C17: operations on different datasets are independent.  A step of a call
\* about dataset A changes no committed row of any other dataset and never
\* waits for a caller working on another dataset, and what the call leaves or
\* returns is what it would alone, whatever the other caller does meanwhile
\* and in whichever order the two commit: a create or update leaves A as its
\* document says, a delete leaves no A, a get returns A as committed.
C17_DifferentDatasetsIndependent ==
    [][\A p \in Procs :
          /\ ~LockedByOther(p, Target(p))
          /\ (pc'[p] # pc[p] \/ tx'[p] # tx[p])
                => \A b \in DatasetIds \ {Target(p), Target(p)'} :
                      RowsOf(Committed', b) = RowsOf(Committed, b)
          /\ (pc[p] # "done" /\ pc'[p] = "done" /\ ret'[p].status = "returned")
                => LET a == Target(p)
                       after == get(Committed', a)
                   IN  CASE args[p].op \in {"create_from_dict", "update"} ->
                                MatchesDoc(after, args[p].dictionary, args[p].author_id)
                         [] args[p].op = "delete" -> after = None
                         [] args[p].op = "get" -> ret'[p].value = get(Committed, a)
                         [] OTHER -> TRUE]_vars

\* One caller is about to commit an update of its dataset and the other a
\* delete of another dataset: both units of work are open, each holding the
\* row of its own dataset.
C17_Witness ==
    \E p, q \in Procs :
        /\ pc[p] = "update_commit" /\ pc[q] = "delete_commit"
        /\ args[p].id # args[q].id
        /\ {args[p].id, args[q].id} \subseteq Ids(dataset)
        /\ args[p].id \in tx[p].locks /\ args[q].id \in tx[q].locks
        /\ tx[p].cls_ins # {} /\ tx[q].cls_del # {}

\* C18: when an update of an existing dataset commits, none of the class ids
\* get returned for the dataset before appears among the class ids get
\* returns after, also when the document's classes are those the dataset had.
C18_ClassIdsNotStable ==
    [][\A p \in Procs :
          (pc[p] = "update_commit" /\ pc'[p] = "done" /\ args[p].id \in Ids(dataset))
              => LET before == get(Committed, args[p].id).classes
                     after == get(Committed', args[p].id).classes
                 IN  /\ Len(after) = Len(args[p].dictionary.val.classes.val)
                     /\ \A i \in 1..Len(before), j \in 1..Len(after) :
                           before[i].id # after[j].id]_vars

\* An update with DocA of a dataset that had DocA's class has returned: a get
\* that returned before it and a get now show the same class by name and
\* recordings, under different ids.
C18_Witness ==
    \E p, q \in Procs :
        /\ pc[p] = "done" /\ args[p].op = "update" /\ ret[p] = Returned(None)
        /\ args[p].dictionary = DocA
        /\ pc[q] = "done" /\ args[q].op = "get" /\ args[q].id = args[p].id
        /\ ret[q].value # None
        /\ get(Committed, args[p].id) # None
        /\ GotClasses(ret[q].value) = DocClasses(DocA)
        /\ GotClasses(get(Committed, args[p].id)) = DocClasses(DocA)
        /\ ret[q].value.classes[1].id # get(Committed, args[p].id).classes[1].id

====
